---- MODULE Spec2Model ----
(***************************************************************************)
(* Job orchestration of the stem-separation server:                        *)
(*   server/services/demucs_service.py    DemucsService (registry,         *)
(*                                        separate, cancel_job)            *)
(*   server/routes/separation.py          the HTTP handlers                *)
(*   server/services/soundcloud_service.py  SoundCloudService              *)
(*                                                                         *)
(* Scheduling.  The handlers are coroutines of one event loop: a handler   *)
(* runs without interruption by another handler until it awaits.           *)
(* DemucsService.separate is a plain function handed to BackgroundTasks,   *)
(* so it runs in a worker thread after the response was sent, and its      *)
(* statements interleave with the handlers' statements.                    *)
(*                                                                         *)
(* Spec    the registry, the files and the pipelines; a call of            *)
(*         resolve_and_download is one await with its possible results.    *)
(* SpecSC  SoundCloudService alone: resolve_and_download step by step.     *)
(***************************************************************************)
EXTENDS Integers, Sequences, FiniteSets, TLC

(***************************************************************************)
(* Bounds                                                                  *)
(***************************************************************************)
\* job ids the handlers generate (uuid4: fresh, never reused).  The pipelines of
\* different job ids share no registry entry and no file, and each one is
\* followed statement by statement.
MaxJobs == 1
\* callers of SoundCloudService.resolve_and_download (SpecSC): the handlers
\* that await it at the same time; a caller calls again after its call ended
MaxCallers == 2
\* how far the monotonic clock is followed, in steps of TOKEN_REFRESH_BUFFER
MaxTicks == 2

JobIds == 1..MaxJobs
\* an id no handler ever generated
UnknownId == 0

(***************************************************************************)
(* Values                                                                  *)
(***************************************************************************)
\* Optional[...]: None is <<>>, a present value x is <<x>>
None == <<>>
Some(x) == <<x>>

PENDING == "pending"
DOWNLOADING == "downloading"
PROCESSING == "processing"
COMPLETED == "completed"
FAILED == "failed"
CANCELLED == "cancelled"

STEMS == <<"drums", "bass", "vocals", "other">>
StemNames == {STEMS[i] : i \in 1..Len(STEMS)}

\* JobStatus(status, progress, stems, error); progress in hundredths
JobStatus(st, pr, ss, er) == [status |-> st, progress |-> pr, stems |-> ss, error |-> er]

TimeoutMsg == "Processing timeout - file may be too large"
DemucsFailedMsg == "Demucs failed: <stderr>"
NoSuchFileMsg == "[Errno 2] No such file or directory"
DirectDownloadMsg == "Failed to download audio from URL. Make sure it's a direct audio link."
SoundCloudEmptyMsg == "Failed to download SoundCloud stream."

(***************************************************************************)
(* State                                                                   *)
(***************************************************************************)
VARIABLES
    jobs,         \* DemucsService.jobs: job id -> JobStatus (a dict: its domain grows)
    inputFile,    \* uploads/{job_id}{ext}: "absent", "empty" or "data"
    outDir,       \* output/{job_id}: the directory and what it holds
    pc,           \* where the pipeline of each job id stands
    path,         \* how the job came in: "none", "upload", "direct", "soundcloud"
    idx,          \* separate: position of the loop over STEMS
    stems_found,  \* separate: the local list stems_found
    engine,       \* what the engine invocation of the job ended with
    produced,     \* the stem files the engine invocation wrote
    cancelling,   \* the job id cancel_job is working on (0: none)
    wasCancelled, \* job ids cancel_job has marked
    returned,     \* job ids sent to a client in a response
    resp,         \* the last HTTP response: [op, code]
    acquisition,  \* what the download of a URL job ended with (None: not ended)
    configured,       \* SoundCloudService: client id and secret are set
    access_token,     \* SoundCloudService._access_token
    token_expires_at, \* SoundCloudService._token_expires_at
    now,              \* time.monotonic(), in seconds
    call              \* the calls of resolve_and_download, one per caller

\* SoundCloudService and its callers
sc == <<configured, access_token, token_expires_at, now, call>>

\* the registry, the files and the pipelines
orch == <<jobs, inputFile, outDir, pc, path, idx, stems_found, engine, produced,
          cancelling, wasCancelled, returned, resp, acquisition>>

vars == <<orch, sc>>

\* the local variables of separate
locals == <<idx, stems_found>>

NoDir == [exists |-> FALSE, flat |-> {}, sub |-> FALSE, subFiles |-> {}]

\* self.jobs[job_id] = rec
SetJob(j, rec) == [i \in (DOMAIN jobs) \cup {j} |-> IF i = j THEN rec ELSE jobs[i]]

\* uuid.uuid4(): an id not generated before
FreshIds == {j \in JobIds : path[j] = "none" /\ \A i \in 1..(j - 1) : path[i] # "none"}

\* the event loop is free to start or resume a handler
LoopFree == cancelling = 0

\* the ids a client can name: those it was sent, and ids that never existed
ClientIds == returned \cup {UnknownId}

Response(op, code) == [op |-> op, code |-> code]

(***************************************************************************)
(* POST /api/separate  (routes/separation.py, separate_audio)              *)
(***************************************************************************)
allowed_types == {"audio/mpeg", "audio/wav", "audio/mp3", "audio/x-wav", "audio/flac",
                  "audio/m4a", "audio/x-m4a", "audio/mp4", "application/octet-stream"}
allowed_extensions == {".mp3", ".wav", ".flac", ".m4a", ".mp4", ".aac"}

\* the uploads a client sends: content type, lower-cased extension, bytes
UploadTypes == {"audio/mpeg", "application/octet-stream", "text/plain"}
UploadExts == {".mp3", ".txt", ""}
UploadBytes == {"data", "empty"}

\* UploadAccepted without the check of line 84
UploadAccepted_TypeOnly(ct, ext) ==
    ~(ct \notin allowed_types /\ ext \notin allowed_extensions)

\* the two checks of lines 77 and 84: TRUE when the upload is let through
UploadAccepted(ct, ext) ==
    /\ ~(ct \notin allowed_types /\ ext \notin allowed_extensions)
    /\ ~(ct = "application/octet-stream" /\ ext \notin allowed_extensions)

\* the upload handler; the background task starts once the response is sent
SeparateAudio(ct, ext, bytes) ==
    /\ LoopFree
    /\ IF ~UploadAccepted(ct, ext)
       THEN /\ resp' = Response("separate", 400)
            /\ UNCHANGED <<jobs, inputFile, pc, path, returned>>
       ELSE /\ \E j \in FreshIds :
                 /\ inputFile' = [inputFile EXCEPT ![j] = bytes]
                 /\ pc' = [pc EXCEPT ![j] = "scheduled"]
                 /\ path' = [path EXCEPT ![j] = "upload"]
                 /\ returned' = returned \cup {j}
            /\ resp' = Response("separate", 200)
            /\ UNCHANGED jobs
    /\ UNCHANGED <<outDir, locals, engine, produced, cancelling, wasCancelled, acquisition, sc>>

(***************************************************************************)
(* POST /api/separate-url  (routes/separation.py, separate_from_url)       *)
(***************************************************************************)
\* the URLs a client sends: the scheme, and whether the host is SoundCloud's
UrlSchemes == {"https", "ftp"}

\* SoundCloudService.is_configured
is_configured == configured

\* lines 133-156 and 182-196: up to the await of the download
SeparateFromUrl(scheme, soundcloud) ==
    /\ LoopFree
    /\ IF scheme \notin {"http", "https"}
       THEN /\ resp' = Response("separate-url", 400)
            /\ UNCHANGED <<jobs, pc, path>>
       ELSE IF soundcloud /\ ~is_configured
       THEN /\ resp' = Response("separate-url", 503)
            /\ UNCHANGED <<jobs, pc, path>>
       ELSE /\ \E j \in FreshIds :
                 /\ jobs' = SetJob(j, JobStatus(DOWNLOADING, 5, None, None))
                 /\ pc' = [pc EXCEPT ![j] = IF soundcloud THEN "sc_await" ELSE "dl_await"]
                 /\ path' = [path EXCEPT ![j] = IF soundcloud THEN "soundcloud" ELSE "direct"]
            /\ UNCHANGED resp
    /\ UNCHANGED <<inputFile, outDir, locals, engine, produced, cancelling, wasCancelled,
                   returned, acquisition, sc>>

\* download_audio_from_url: what it returns and the file it leaves.  A non-200
\* answer returns False before the file is opened; an exception while streaming
\* returns False and leaves what was written; otherwise True.
DownloadResults ==
    {[success |-> TRUE, file |-> "data"], [success |-> TRUE, file |-> "empty"],
     [success |-> FALSE, file |-> "absent"], [success |-> FALSE, file |-> "empty"],
     [success |-> FALSE, file |-> "data"]}

\* DownloadFailed trusting the downloader's return value alone
DownloadFailed_ReturnOnly(r) == ~r.success

\* line 200: not success or not os.path.exists(...) or os.path.getsize(...) == 0
DownloadFailed(r) == ~r.success \/ r.file = "absent" \/ r.file = "empty"

\* add_task(demucs_service.separate, ...) and the 200 response
Schedule(j) ==
    /\ pc' = [pc EXCEPT ![j] = "scheduled"]
    /\ returned' = returned \cup {j}
    /\ resp' = Response("separate-url", 200)
    /\ UNCHANGED jobs

\* lines 198-216: the download ended, the handler resumes
DirectDownloadDone(j, r) ==
    /\ LoopFree
    /\ pc[j] = "dl_await"
    /\ inputFile' = [inputFile EXCEPT ![j] = r.file]
    /\ IF DownloadFailed(r)
       THEN /\ jobs' = SetJob(j, JobStatus(FAILED, 0, None, Some(DirectDownloadMsg)))
            /\ pc' = [pc EXCEPT ![j] = "refused"]
            /\ resp' = Response("separate-url", 400)
            /\ UNCHANGED returned
       ELSE Schedule(j)
    /\ acquisition' = [acquisition EXCEPT ![j] = Some(r)]
    /\ UNCHANGED <<outDir, path, locals, engine, produced, cancelling, wasCancelled, sc>>

(***************************************************************************)
(* SoundCloudError and the places that raise it (soundcloud_service.py)    *)
(***************************************************************************)
\* SoundCloudError(message, status_code); status_code None is 0
SoundCloudError(m, c) == [message |-> m, status_code |-> c]

\* the non-200 statuses a request is answered with
ErrorStatuses == {401, 403, 404, 500}

NotConfiguredMsg == "SoundCloud credentials not configured. Set SOUNDCLOUD_CLIENT_ID and SOUNDCLOUD_CLIENT_SECRET."
TokenFailedMsg == "Failed to get SoundCloud token: <status> <text>"
TokenMissingMsg == "SoundCloud token response missing access_token"
ResolveAuthMsg == "SoundCloud authentication failed. Check your credentials."
ResolveNotFoundMsg == "SoundCloud URL not found."
ResolveForbiddenMsg == "Access to this SoundCloud resource is forbidden."
ResolveFailedMsg == "SoundCloud resolve failed: <status> <text>"
NotTrackMsg == "Only single track URLs are supported. Playlists and user pages are not supported."
BlockedMsg == "This track is not available for streaming (e.g. restricted or paywalled)."
PreviewMsg == "Only full playable tracks are supported. This track has preview-only access."
NotStreamableMsg == "This track is not streamable (access: <access>)."
NoStreamUrlMsg == "No stream URL available for this track."
StreamAuthMsg == "SoundCloud stream authentication failed."
StreamFailedMsg == "Failed to download stream: <status>"

\* "not configured" in e.message.lower()
MentionsNotConfigured(m) == m = NotConfiguredMsg

\* what a call of resolve_and_download made by the handler ends with: it
\* returns with the file written, raises SoundCloudError before the file is
\* opened, or raises another exception (aiohttp.ClientError, a timeout, a
\* body that is no JSON) at any of its requests.  The handler calls it only
\* when credentials are configured, so NotConfiguredMsg is not among them.
ResolveResults ==
    {[kind |-> "ok", err |-> SoundCloudError("", 0), file |-> f] : f \in {"data", "empty"}}
    \cup {[kind |-> "exception", err |-> SoundCloudError("", 0), file |-> f] :
            f \in {"absent", "empty", "data"}}
    \cup {[kind |-> "error", err |-> e, file |-> "absent"] :
            e \in {SoundCloudError(TokenFailedMsg, c) : c \in ErrorStatuses}
                  \cup {SoundCloudError(StreamFailedMsg, c) : c \in ErrorStatuses \ {401}}
                  \cup {SoundCloudError(ResolveFailedMsg, c) :
                          c \in ErrorStatuses \ {401, 403, 404}}
                  \cup {SoundCloudError(TokenMissingMsg, 0),
                        SoundCloudError(ResolveAuthMsg, 401),
                        SoundCloudError(ResolveNotFoundMsg, 404),
                        SoundCloudError(ResolveForbiddenMsg, 403),
                        SoundCloudError(NotTrackMsg, 0),
                        SoundCloudError(BlockedMsg, 0),
                        SoundCloudError(PreviewMsg, 0),
                        SoundCloudError(NotStreamableMsg, 0),
                        SoundCloudError(NoStreamUrlMsg, 0),
                        SoundCloudError(StreamAuthMsg, 401)}}

\* lines 161-163: the status of the HTTPException
ErrorResponseCode(e) ==
    IF MentionsNotConfigured(e.message) THEN 503
    ELSE IF e.status_code # 0 THEN e.status_code
    ELSE 400

\* lines 158-179: resolve_and_download ended, the handler resumes
SoundCloudDone(j, r) ==
    /\ LoopFree
    /\ pc[j] = "sc_await"
    /\ inputFile' = [inputFile EXCEPT ![j] = r.file]
    /\ CASE r.kind = "error" ->
              /\ jobs' = SetJob(j, JobStatus(FAILED, 0, None, Some(r.err.message)))
              /\ pc' = [pc EXCEPT ![j] = "refused"]
              /\ resp' = Response("separate-url", ErrorResponseCode(r.err))
              /\ UNCHANGED returned
         [] r.kind = "exception" ->
              /\ pc' = [pc EXCEPT ![j] = "aborted"]
              /\ resp' = Response("separate-url", 500)
              /\ UNCHANGED <<jobs, returned>>
         [] r.kind = "ok" /\ (r.file = "absent" \/ r.file = "empty") ->
              /\ jobs' = SetJob(j, JobStatus(FAILED, 0, None, Some(SoundCloudEmptyMsg)))
              /\ pc' = [pc EXCEPT ![j] = "refused"]
              /\ resp' = Response("separate-url", 400)
              /\ UNCHANGED returned
         [] OTHER -> Schedule(j)
    /\ acquisition' = [acquisition EXCEPT ![j] = Some(r)]
    /\ UNCHANGED <<outDir, path, locals, engine, produced, cancelling, wasCancelled, sc>>

(***************************************************************************)
(* GET /api/status/{job_id}  (get_job_status, get_status)                  *)
(***************************************************************************)
\* DemucsService.get_job_status: self.jobs.get(job_id)
get_job_status(id) == IF id \in DOMAIN jobs THEN Some(jobs[id]) ELSE None

\* the body of the 200 answer: stems are listed for a completed job whose
\* list is not empty (line 237)
StatusResponse(job) ==
    [status |-> job.status, progress |-> job.progress, error |-> job.error,
     stems |-> IF job.status = COMPLETED /\ job.stems # None /\ job.stems[1] # <<>>
               THEN job.stems ELSE None]

GetStatus(id) ==
    /\ LoopFree
    /\ resp' = Response("status", IF get_job_status(id) = None THEN 404 ELSE 200)
    /\ UNCHANGED <<jobs, inputFile, outDir, pc, path, locals, engine, produced, cancelling,
                   wasCancelled, returned, acquisition, sc>>

(***************************************************************************)
(* DELETE /api/job/{job_id}  (DemucsService.cancel_job, cancel_job)        *)
(***************************************************************************)
\* CancelMark without the membership test of line 134
CancelMark_NoLookup(id) ==
    /\ LoopFree
    /\ jobs' = SetJob(id, JobStatus(CANCELLED, 0, None, None))
    /\ resp' = Response("cancel", 200)
    /\ UNCHANGED <<cancelling, wasCancelled>>
    /\ UNCHANGED <<inputFile, outDir, pc, path, locals, engine, produced, returned,
                   acquisition, sc>>

\* CancelMark writing a reason into the error field as well
CancelMark_WithError(id) ==
    /\ LoopFree
    /\ IF id \notin DOMAIN jobs
       THEN /\ resp' = Response("cancel", 404)
            /\ UNCHANGED <<jobs, cancelling, wasCancelled>>
       ELSE /\ jobs' = [jobs EXCEPT ![id].status = CANCELLED,
                                    ![id].error = Some("Cancelled by user")]
            /\ cancelling' = id
            /\ wasCancelled' = wasCancelled \cup {id}
            /\ UNCHANGED resp
    /\ UNCHANGED <<inputFile, outDir, pc, path, locals, engine, produced, returned,
                   acquisition, sc>>

\* lines 134-137: unknown id: False, answered 404; else the status is set
\* in place on the record the registry holds
CancelMark(id) ==
    /\ LoopFree
    /\ IF id \notin DOMAIN jobs
       THEN /\ resp' = Response("cancel", 404)
            /\ UNCHANGED <<jobs, cancelling, wasCancelled>>
       ELSE /\ jobs' = [jobs EXCEPT ![id].status = CANCELLED]
            /\ cancelling' = id
            /\ wasCancelled' = wasCancelled \cup {id}
            /\ UNCHANGED resp
    /\ UNCHANGED <<inputFile, outDir, pc, path, locals, engine, produced, returned,
                   acquisition, sc>>

\* lines 140-144 and the handler's answer: the output directory is removed
\* if it exists, cancel_job returns True
CancelCleanup(j) ==
    /\ cancelling = j
    /\ outDir' = [outDir EXCEPT ![j] = NoDir]
    /\ cancelling' = 0
    /\ resp' = Response("cancel", 200)
    /\ UNCHANGED <<jobs, inputFile, pc, path, locals, engine, produced, wasCancelled,
                   returned, acquisition, sc>>

(***************************************************************************)
(* DemucsService.separate, in a worker thread                              *)
(***************************************************************************)
\* every step of separate leaves these alone
ThreadFrame == UNCHANGED <<path, cancelling, wasCancelled, returned, resp, acquisition, sc>>

\* Fail writing a status that is none of the six
Fail_ErrorStatus(j, msg) ==
    /\ jobs' = SetJob(j, JobStatus("error", 0, None, Some(msg)))
    /\ pc' = [pc EXCEPT ![j] = "done"]

\* the except clauses, lines 121-130
Fail(j, msg) ==
    /\ jobs' = SetJob(j, JobStatus(FAILED, 0, None, Some(msg)))
    /\ pc' = [pc EXCEPT ![j] = "done"]

\* SeparateStart leaving the progress at the default of JobStatus
SeparateStart_NoProgress(j) ==
    /\ pc[j] = "scheduled"
    /\ jobs' = SetJob(j, JobStatus(PROCESSING, 0, None, None))
    /\ pc' = [pc EXCEPT ![j] = "makedirs"]
    /\ UNCHANGED <<inputFile, outDir, locals, engine, produced>>
    /\ ThreadFrame

\* line 64
SeparateStart(j) ==
    /\ pc[j] = "scheduled"
    /\ jobs' = SetJob(j, JobStatus(PROCESSING, 10, None, None))
    /\ pc' = [pc EXCEPT ![j] = "makedirs"]
    /\ UNCHANGED <<inputFile, outDir, locals, engine, produced>>
    /\ ThreadFrame

\* line 67: os.makedirs(job_output_dir, exist_ok=True).  It stands before the
\* try of line 69: when it raises OSError (ok = FALSE: no space, no
\* permission) the exception leaves separate and the task ends
MakeOutputDir(j, ok) ==
    /\ pc[j] = "makedirs"
    /\ IF ok
       THEN /\ outDir' = [outDir EXCEPT ![j].exists = TRUE]
            /\ pc' = [pc EXCEPT ![j] = "progress20"]
       ELSE /\ pc' = [pc EXCEPT ![j] = "escaped"]
            /\ UNCHANGED outDir
    /\ UNCHANGED <<jobs, inputFile, locals, engine, produced>>
    /\ ThreadFrame

\* line 79, and subprocess.run starts the engine
StartEngine(j) ==
    /\ pc[j] = "progress20"
    /\ jobs' = [jobs EXCEPT ![j].progress = 20]
    /\ pc' = [pc EXCEPT ![j] = "engine"]
    /\ UNCHANGED <<inputFile, outDir, locals, engine, produced>>
    /\ ThreadFrame

\* how an engine invocation ends
EngineResults == {"ok", "nonzero", "timeout"}

\* EngineExit with the timeout caught by the generic except clause
EngineExit_GenericTimeout(j, result, files) ==
    /\ pc[j] = "engine"
    /\ engine' = [engine EXCEPT ![j] = result]
    /\ CASE result = "ok" ->
              /\ outDir' = [outDir EXCEPT ![j].exists = TRUE, ![j].sub = TRUE,
                                          ![j].subFiles = files]
              /\ produced' = [produced EXCEPT ![j] = files]
              /\ pc' = [pc EXCEPT ![j] = "progress90"]
              /\ UNCHANGED jobs
         [] OTHER ->
              /\ Fail(j, DemucsFailedMsg)
              /\ UNCHANGED <<outDir, produced>>
    /\ UNCHANGED <<inputFile, locals>>
    /\ ThreadFrame

\* lines 81-89.  The engine is opaque: with exit code 0 it has written the
\* files of some of its stems under {job_output_dir}/{MODEL}/{input name}/,
\* creating the directories it needs.
EngineExit(j, result, files) ==
    /\ pc[j] = "engine"
    /\ engine' = [engine EXCEPT ![j] = result]
    /\ CASE result = "ok" ->
              /\ outDir' = [outDir EXCEPT ![j].exists = TRUE, ![j].sub = TRUE,
                                          ![j].subFiles = files]
              /\ produced' = [produced EXCEPT ![j] = files]
              /\ pc' = [pc EXCEPT ![j] = "progress90"]
              /\ UNCHANGED jobs
         [] result = "nonzero" ->
              /\ Fail(j, DemucsFailedMsg)
              /\ UNCHANGED <<outDir, produced>>
         [] result = "timeout" ->
              /\ Fail(j, TimeoutMsg)
              /\ UNCHANGED <<outDir, produced>>
    /\ UNCHANGED <<inputFile, locals>>
    /\ ThreadFrame

\* lines 91-98
AfterEngine(j) ==
    /\ pc[j] = "progress90"
    /\ jobs' = [jobs EXCEPT ![j].progress = 90]
    /\ idx' = [idx EXCEPT ![j] = 1]
    /\ stems_found' = [stems_found EXCEPT ![j] = <<>>]
    /\ pc' = [pc EXCEPT ![j] = "stem_exists"]
    /\ UNCHANGED <<inputFile, outDir, engine, produced>>
    /\ ThreadFrame

\* os.path.exists(src) for the stem file under the engine's subdirectory
SrcExists(j, stem) == outDir[j].exists /\ outDir[j].sub /\ stem \in outDir[j].subFiles

\* the loop goes on to the next stem, or ends
NextStem(j) ==
    IF idx[j] < Len(STEMS)
    THEN /\ idx' = [idx EXCEPT ![j] = idx[j] + 1]
         /\ pc' = [pc EXCEPT ![j] = "stem_exists"]
    ELSE /\ idx' = idx
         /\ pc' = [pc EXCEPT ![j] = "subdir_exists"]

\* line 102
StemExists(j) ==
    /\ pc[j] = "stem_exists"
    /\ IF SrcExists(j, STEMS[idx[j]])
       THEN /\ pc' = [pc EXCEPT ![j] = "stem_move"]
            /\ UNCHANGED idx
       ELSE NextStem(j)
    /\ UNCHANGED <<jobs, inputFile, outDir, stems_found, engine, produced>>
    /\ ThreadFrame

\* StemMove putting the stem at the front of stems_found
StemMove_Prepend(j) ==
    /\ pc[j] = "stem_move"
    /\ IF SrcExists(j, STEMS[idx[j]])
       THEN /\ outDir' = [outDir EXCEPT
                            ![j].subFiles = outDir[j].subFiles \ {STEMS[idx[j]]},
                            ![j].flat = outDir[j].flat \cup {STEMS[idx[j]]}]
            /\ stems_found' = [stems_found EXCEPT ![j] = <<STEMS[idx[j]]>> \o stems_found[j]]
            /\ NextStem(j)
            /\ UNCHANGED jobs
       ELSE /\ Fail(j, NoSuchFileMsg)
            /\ UNCHANGED <<outDir, locals>>
    /\ UNCHANGED <<inputFile, engine, produced>>
    /\ ThreadFrame

\* lines 103-104: shutil.move raises FileNotFoundError when the file went
\* away after the check
StemMove(j) ==
    /\ pc[j] = "stem_move"
    /\ IF SrcExists(j, STEMS[idx[j]])
       THEN /\ outDir' = [outDir EXCEPT
                            ![j].subFiles = outDir[j].subFiles \ {STEMS[idx[j]]},
                            ![j].flat = outDir[j].flat \cup {STEMS[idx[j]]}]
            /\ stems_found' = [stems_found EXCEPT ![j] = Append(stems_found[j], STEMS[idx[j]])]
            /\ NextStem(j)
            /\ UNCHANGED jobs
       ELSE /\ Fail(j, NoSuchFileMsg)
            /\ UNCHANGED <<outDir, locals>>
    /\ UNCHANGED <<inputFile, engine, produced>>
    /\ ThreadFrame

\* line 108
SubdirExists(j) ==
    /\ pc[j] = "subdir_exists"
    /\ pc' = [pc EXCEPT ![j] = IF outDir[j].exists /\ outDir[j].sub
                               THEN "subdir_rmtree" ELSE "input_cleanup"]
    /\ UNCHANGED <<jobs, inputFile, outDir, locals, engine, produced>>
    /\ ThreadFrame

\* line 109: shutil.rmtree raises FileNotFoundError when the directory went
\* away after the check
SubdirRmtree(j) ==
    /\ pc[j] = "subdir_rmtree"
    /\ IF outDir[j].exists /\ outDir[j].sub
       THEN /\ outDir' = [outDir EXCEPT ![j].sub = FALSE, ![j].subFiles = {}]
            /\ pc' = [pc EXCEPT ![j] = "input_cleanup"]
            /\ UNCHANGED jobs
       ELSE /\ Fail(j, NoSuchFileMsg)
            /\ UNCHANGED outDir
    /\ UNCHANGED <<inputFile, locals, engine, produced>>
    /\ ThreadFrame

\* lines 112-113
InputCleanup(j) ==
    /\ pc[j] = "input_cleanup"
    /\ inputFile' = [inputFile EXCEPT ![j] = "absent"]
    /\ pc' = [pc EXCEPT ![j] = "complete"]
    /\ UNCHANGED <<jobs, outDir, locals, engine, produced>>
    /\ ThreadFrame

\* lines 115-119
Complete(j) ==
    /\ pc[j] = "complete"
    /\ jobs' = SetJob(j, JobStatus(COMPLETED, 100, Some(stems_found[j]), None))
    /\ pc' = [pc EXCEPT ![j] = "done"]
    /\ UNCHANGED <<inputFile, outDir, locals, engine, produced>>
    /\ ThreadFrame

(***************************************************************************)
(* The orchestration: Spec                                                 *)
(***************************************************************************)
\* a caller that is not in a call of resolve_and_download yet.  pc: the request
\* the call awaits; token: the token it holds (0: none); kind, access: what
\* the resolve request answered; location: where the stream URL came from;
\* sent: the requests the call has issued; exchanges: how many of them were
\* credential exchanges; result: how the call ended.
Idle == [pc |-> "idle", token |-> 0, kind |-> "", access |-> "", location |-> "",
         sent |-> {}, exchanges |-> 0, result |-> None]

\* the service object after __init__ (lines 35-39), with or without
\* credentials in the environment
ServiceInit ==
    /\ configured \in BOOLEAN
    /\ access_token = None
    /\ token_expires_at = 0
    /\ now = 0
    /\ call = [c \in 1..MaxCallers |-> Idle]

Init ==
    /\ jobs = <<>>
    /\ inputFile = [j \in JobIds |-> "absent"]
    /\ outDir = [j \in JobIds |-> NoDir]
    /\ pc = [j \in JobIds |-> "none"]
    /\ path = [j \in JobIds |-> "none"]
    /\ idx = [j \in JobIds |-> 1]
    /\ stems_found = [j \in JobIds |-> <<>>]
    /\ engine = [j \in JobIds |-> "none"]
    /\ produced = [j \in JobIds |-> {}]
    /\ cancelling = 0
    /\ wasCancelled = {}
    /\ returned = {}
    /\ resp = Response("none", 0)
    /\ acquisition = [j \in JobIds |-> None]
    /\ ServiceInit

Next ==
    \/ \E ct \in UploadTypes, ext \in UploadExts, b \in UploadBytes : SeparateAudio(ct, ext, b)
    \/ \E s \in UrlSchemes, soundcloud \in BOOLEAN : SeparateFromUrl(s, soundcloud)
    \/ \E j \in JobIds, r \in DownloadResults : DirectDownloadDone(j, r)
    \/ \E j \in JobIds, r \in ResolveResults : SoundCloudDone(j, r)
    \/ \E id \in ClientIds : GetStatus(id)
    \/ \E id \in ClientIds : CancelMark(id)
    \/ \E j \in JobIds : CancelCleanup(j)
    \/ \E j \in JobIds : SeparateStart(j)
    \/ \E j \in JobIds, ok \in BOOLEAN : MakeOutputDir(j, ok)
    \/ \E j \in JobIds : StartEngine(j)
    \/ \E j \in JobIds, r \in EngineResults, f \in SUBSET StemNames : EngineExit(j, r, f)
    \/ \E j \in JobIds : AfterEngine(j)
    \/ \E j \in JobIds : StemExists(j)
    \/ \E j \in JobIds : StemMove(j)
    \/ \E j \in JobIds : SubdirExists(j)
    \/ \E j \in JobIds : SubdirRmtree(j)
    \/ \E j \in JobIds : InputCleanup(j)
    \/ \E j \in JobIds : Complete(j)

Spec == Init /\ [][Next]_vars

(***************************************************************************)
(* SoundCloudService  (services/soundcloud_service.py): SpecSC             *)
(***************************************************************************)
\* line 18
TOKEN_REFRESH_BUFFER == 300

Callers == 1..MaxCallers

\* expires_in of a token response, in seconds
ExpiresIn == {TOKEN_REFRESH_BUFFER, 3 * TOKEN_REFRESH_BUFFER}

\* what the resolve request answers with status 200
Kinds == {"track", "playlist"}
AccessLevels == {"playable", "preview", "blocked", "other"}
Resources ==
    [kind : Kinds, access : AccessLevels, stream_url : BOOLEAN, id : BOOLEAN]

\* the keys of the streams answer, in the order of lines 147-149
StreamKeys == <<"http_mp3_128_url", "hls_mp3_128_url", "preview_mp3_128_url">>

\* TokenValid keeping twice the buffer before the expiry
TokenValid_DoubleBuffer ==
    access_token # None /\ now < token_expires_at - 2 * TOKEN_REFRESH_BUFFER

\* TokenValid without the buffer: good until the expiry itself
TokenValid_NoBuffer ==
    access_token # None /\ now < token_expires_at

\* line 46: the cached token is still good
TokenValid ==
    access_token # None /\ now < token_expires_at - TOKEN_REFRESH_BUFFER

\* the call of caller c ends by raising SoundCloudError
Raise(c, m, code) ==
    [call[c] EXCEPT !.pc = "done",
                    !.result = Some([kind |-> "error", err |-> SoundCloudError(m, code),
                                     file |-> "absent"])]

\* the call of caller c issues request rq and awaits its answer
Send(rec, rq) ==
    [rec EXCEPT !.pc = rq, !.sent = rec.sent \cup {rq},
                !.exchanges = IF rq = "token" THEN rec.exchanges + 1 ELSE rec.exchanges]

SCFrame == UNCHANGED <<orch, configured>>

\* time passes
Tick ==
    /\ now < MaxTicks * TOKEN_REFRESH_BUFFER
    /\ now' = now + TOKEN_REFRESH_BUFFER
    /\ UNCHANGED <<access_token, token_expires_at, call>>
    /\ SCFrame

\* resolve_and_download is called; _get_token up to its first await
\* (lines 46-56), and with a cached token on to the resolve request
CallStart(c) ==
    /\ call[c].pc \in {"idle", "done"}
    /\ call' = [call EXCEPT ![c] =
                  IF TokenValid
                  THEN Send([Idle EXCEPT !.token = access_token[1]], "resolve")
                  ELSE IF ~is_configured
                  THEN [Idle EXCEPT !.pc = "done",
                                    !.result = Some([kind |-> "error",
                                                     err |-> SoundCloudError(NotConfiguredMsg, 0),
                                                     file |-> "absent"])]
                  ELSE Send(Idle, "token")]
    /\ UNCHANGED <<access_token, token_expires_at, now>>
    /\ SCFrame

\* lines 66-78, then lines 87-98: the token endpoint answered.  tok: the
\* token of the answer (0: the answer has no access_token)
TokenResponse(c, status, tok, expires_in) ==
    /\ call[c].pc = "token"
    /\ IF status # 200
       THEN /\ call' = [call EXCEPT ![c] = Raise(c, TokenFailedMsg, status)]
            /\ UNCHANGED <<access_token, token_expires_at>>
       ELSE /\ access_token' = IF tok = 0 THEN None ELSE Some(tok)
            /\ token_expires_at' = now + expires_in
            /\ call' = [call EXCEPT ![c] =
                          IF tok = 0
                          THEN Raise(c, TokenMissingMsg, 0)
                          ELSE Send([call[c] EXCEPT !.token = tok], "resolve")]
    /\ UNCHANGED now
    /\ SCFrame

\* ValidateResource looking at the access level before the kind
ValidateResource_AccessFirst(res) ==
    IF res.access = "blocked" THEN Some(BlockedMsg)
    ELSE IF res.access = "preview" THEN Some(PreviewMsg)
    ELSE IF res.access # "playable" THEN Some(NotStreamableMsg)
    ELSE IF res.kind # "track" THEN Some(NotTrackMsg)
    ELSE None

\* lines 114-130: None when the resource may be streamed, else the message
ValidateResource(res) ==
    IF res.kind # "track" THEN Some(NotTrackMsg)
    ELSE IF res.access = "playable" THEN None
    ELSE IF res.access = "blocked" THEN Some(BlockedMsg)
    ELSE IF res.access = "preview" THEN Some(PreviewMsg)
    ELSE Some(NotStreamableMsg)

\* ResolveResponse keeping the cached token on a 401 and answering every
\* other error status with the generic failure
ResolveResponse_KeepToken(c, status, res) ==
    /\ call[c].pc = "resolve"
    /\ access_token' = access_token
    /\ call' = [call EXCEPT ![c] =
         CASE status = 401 -> Raise(c, ResolveAuthMsg, 401)
           [] status \notin {200, 401} -> Raise(c, ResolveFailedMsg, status)
           [] OTHER ->
                LET seen == [call[c] EXCEPT !.kind = res.kind, !.access = res.access]
                    bad == ValidateResource(res)
                IN  IF bad # None
                    THEN [seen EXCEPT !.pc = "done",
                                      !.result = Some([kind |-> "error",
                                                       err |-> SoundCloudError(bad[1], 0),
                                                       file |-> "absent"])]
                    ELSE IF res.stream_url
                    THEN Send([seen EXCEPT !.location = "stream_url"], "stream")
                    ELSE IF res.id
                    THEN Send(seen, "streams")
                    ELSE [seen EXCEPT !.pc = "done",
                                      !.result = Some([kind |-> "error",
                                                       err |-> SoundCloudError(NoStreamUrlMsg, 0),
                                                       file |-> "absent"])]]
    /\ UNCHANGED <<token_expires_at, now>>
    /\ SCFrame

\* lines 99-136 and 151-155: the resolve request was answered
ResolveResponse(c, status, res) ==
    /\ call[c].pc = "resolve"
    /\ access_token' = IF status = 401 THEN None ELSE access_token
    /\ call' = [call EXCEPT ![c] =
         CASE status = 401 -> Raise(c, ResolveAuthMsg, 401)
           [] status = 404 -> Raise(c, ResolveNotFoundMsg, 404)
           [] status = 403 -> Raise(c, ResolveForbiddenMsg, 403)
           [] status \notin {200, 401, 403, 404} -> Raise(c, ResolveFailedMsg, status)
           [] OTHER ->
                LET seen == [call[c] EXCEPT !.kind = res.kind, !.access = res.access]
                    bad == ValidateResource(res)
                IN  IF bad # None
                    THEN [seen EXCEPT !.pc = "done",
                                      !.result = Some([kind |-> "error",
                                                       err |-> SoundCloudError(bad[1], 0),
                                                       file |-> "absent"])]
                    ELSE IF res.stream_url
                    THEN Send([seen EXCEPT !.location = "stream_url"], "stream")
                    ELSE IF res.id
                    THEN Send(seen, "streams")
                    ELSE [seen EXCEPT !.pc = "done",
                                      !.result = Some([kind |-> "error",
                                                       err |-> SoundCloudError(NoStreamUrlMsg, 0),
                                                       file |-> "absent"])]]
    /\ UNCHANGED <<token_expires_at, now>>
    /\ SCFrame

\* PickStream preferring the HLS variant
PickStream_HlsFirst(keys) ==
    IF StreamKeys[2] \in keys THEN StreamKeys[2]
    ELSE IF StreamKeys[1] \in keys THEN StreamKeys[1]
    ELSE IF StreamKeys[3] \in keys THEN StreamKeys[3]
    ELSE ""

\* lines 146-150: the first key of StreamKeys the answer holds a URL for
\* ("": none)
PickStream(keys) ==
    IF StreamKeys[1] \in keys THEN StreamKeys[1]
    ELSE IF StreamKeys[2] \in keys THEN StreamKeys[2]
    ELSE IF StreamKeys[3] \in keys THEN StreamKeys[3]
    ELSE ""

\* lines 143-155: the streams lookup was answered.  isDict: the body is a
\* JSON object; keys: the keys it holds a URL for
StreamsResponse(c, status, isDict, keys) ==
    /\ call[c].pc = "streams"
    /\ call' = [call EXCEPT ![c] =
         IF status = 200 /\ isDict /\ PickStream(keys) # ""
         THEN Send([call[c] EXCEPT !.location = PickStream(keys)], "stream")
         ELSE Raise(c, NoStreamUrlMsg, 0)]
    /\ UNCHANGED <<access_token, token_expires_at, now>>
    /\ SCFrame

\* lines 160-170: the stream request was answered; with 200 the body is
\* written to output_path
StreamResponse(c, status, body) ==
    /\ call[c].pc = "stream"
    /\ access_token' = IF status = 401 THEN None ELSE access_token
    /\ call' = [call EXCEPT ![c] =
         CASE status = 401 -> Raise(c, StreamAuthMsg, 401)
           [] status \notin {200, 401} -> Raise(c, StreamFailedMsg, status)
           [] OTHER -> [call[c] EXCEPT !.pc = "done",
                                       !.result = Some([kind |-> "ok",
                                                        err |-> SoundCloudError("", 0),
                                                        file |-> body])]]
    /\ UNCHANGED <<token_expires_at, now>>
    /\ SCFrame

\* a request fails below HTTP (aiohttp.ClientError, a timeout) or its body
\* is no JSON: the exception is no SoundCloudError and leaves the call; the
\* stream request may have written part of the file by then
TransportError(c, file) ==
    /\ call[c].pc \in {"token", "resolve", "streams", "stream"}
    /\ file # "absent" => call[c].pc = "stream"
    /\ call' = [call EXCEPT ![c] =
                  [call[c] EXCEPT !.pc = "done",
                                  !.result = Some([kind |-> "exception",
                                                   err |-> SoundCloudError("", 0),
                                                   file |-> file])]]
    /\ UNCHANGED <<access_token, token_expires_at, now>>
    /\ SCFrame

\* the statuses a request is answered with
Statuses == {200} \cup ErrorStatuses

\* the bodies that come with an answer of the given status; the code reads
\* the body of a 200 answer only, so the other statuses come with one body
TokenBodies(c, status) ==
    IF status = 200 THEN {0, c} \X ExpiresIn ELSE {<<0, TOKEN_REFRESH_BUFFER>>}

ResourcesOf(status) ==
    IF status = 200 THEN Resources
    ELSE {[kind |-> "playlist", access |-> "other", stream_url |-> FALSE, id |-> FALSE]}

StreamsBodies(status) ==
    IF status = 200
    THEN {<<FALSE, {}>>} \cup
         {<<TRUE, k>> : k \in SUBSET {StreamKeys[i] : i \in 1..Len(StreamKeys)}}
    ELSE {<<FALSE, {}>>}

StreamBodies(status) == IF status = 200 THEN {"data", "empty"} ELSE {"empty"}

NextSC ==
    \/ Tick
    \/ \E c \in Callers : CallStart(c)
    \/ \E c \in Callers, st \in Statuses :
          \E b \in TokenBodies(c, st) : TokenResponse(c, st, b[1], b[2])
    \/ \E c \in Callers, st \in Statuses :
          \E res \in ResourcesOf(st) : ResolveResponse(c, st, res)
    \/ \E c \in Callers, st \in Statuses :
          \E b \in StreamsBodies(st) : StreamsResponse(c, st, b[1], b[2])
    \/ \E c \in Callers, st \in Statuses :
          \E b \in StreamBodies(st) : StreamResponse(c, st, b)
    \/ \E c \in Callers, f \in {"absent", "empty", "data"} : TransportError(c, f)

SpecSC == Init /\ [][NextSC]_vars

\* the steps of the worker thread of job j, the engine's exit among them
ThreadStep(j) ==
    \/ SeparateStart(j)
    \/ \E ok \in BOOLEAN : MakeOutputDir(j, ok)
    \/ StartEngine(j)
    \/ \E r \in EngineResults, f \in SUBSET StemNames : EngineExit(j, r, f)
    \/ AfterEngine(j)
    \/ StemExists(j)
    \/ StemMove(j)
    \/ SubdirExists(j)
    \/ SubdirRmtree(j)
    \/ InputCleanup(j)
    \/ Complete(j)

\* A scheduled background task is run, the thread pool runs a started
\* separate to its end, and subprocess.run returns within its timeout.
FairSpec == Spec /\ \A j \in JobIds : WF_vars(ThreadStep(j))

(***************************************************************************)
(* Properties of the orchestration                                         *)
(***************************************************************************)
Terminal == {COMPLETED, FAILED, CANCELLED}

\* C1: terminal states are absorbing: once the record of a job id has status
\* completed, failed or cancelled, no step changes its status, progress,
\* stems or error.
C1_TerminalAbsorbing ==
    [][\A j \in DOMAIN jobs : jobs[j].status \in Terminal => jobs'[j] = jobs[j]]_vars

\* C2: in every state, stems are set only on a completed record and error
\* only on a failed record.
C2_PayloadMatchesStatus ==
    \A j \in DOMAIN jobs :
        /\ jobs[j].stems # None => jobs[j].status = COMPLETED
        /\ jobs[j].error # None => jobs[j].status = FAILED

\* C3: when cancel_job returns for a job id of the registry it has answered
\* success, the record's status is cancelled and the output directory does
\* not exist.
C3_CancelPostcondition ==
    [][\A j \in JobIds :
          CancelCleanup(j) =>
              /\ resp' = Response("cancel", 200)
              /\ jobs'[j].status = CANCELLED
              /\ ~outDir'[j].exists]_vars

\* C4: cancel_job on an id that is not in the registry answers not-found and
\* changes neither the registry nor an output directory; a status read of
\* such an id answers not-found and creates no record.
C4_UnknownIdNotFound ==
    [][\A id \in JobIds \cup {UnknownId} :
          id \notin DOMAIN jobs =>
              /\ CancelMark(id) =>
                    /\ resp' = Response("cancel", 404)
                    /\ cancelling' = 0
                    /\ UNCHANGED <<jobs, outDir, inputFile, wasCancelled>>
              /\ GetStatus(id) =>
                    /\ resp' = Response("status", 404)
                    /\ UNCHANGED <<jobs, outDir, inputFile>>]_vars

\* C4 happens: a cancel of an id that is not in the registry was answered 404
\* while the registry holds a job with an output directory
C4_Witness ==
    /\ resp = Response("cancel", 404)
    /\ \E j \in DOMAIN jobs : outDir[j].exists

\* C5: every job id sent to a client is in the registry from the moment the
\* response is sent, so no status read or cancel of it is answered not-found.
C5_ReturnedIdsRegistered == returned \subseteq DOMAIN jobs

\* the position of a status on pending -> downloading -> processing -> completed
Rank(st) ==
    CASE st = PENDING -> 1 [] st = DOWNLOADING -> 2 [] st = PROCESSING -> 3
      [] st = COMPLETED -> 4 [] OTHER -> 0

\* a status change the data model allows
LegalStep(a, b) ==
    \/ /\ Rank(a) > 0
       /\ Rank(b) > Rank(a)
       /\ b = COMPLETED => a = PROCESSING
    \/ /\ a \notin Terminal
       /\ b \in {FAILED, CANCELLED}

\* C6: the status of a job changes only forward along pending -> downloading
\* -> processing -> completed (completed only from processing), or from a
\* non-terminal status to failed or cancelled.
C6_StatusMovesForward ==
    [][\A j \in DOMAIN jobs :
          jobs'[j].status # jobs[j].status => LegalStep(jobs[j].status, jobs'[j].status)]_vars

\* the names of S in the order of STEMS
CanonicalOrder(S) == SelectSeq(STEMS, LAMBDA s : s \in S)

\* job j ended completed: progress 1.0, the stems the engine produced in the
\* order of STEMS, the input file gone, the stem files directly in the
\* output directory and no subdirectory of the engine left
CompletedProperly(j) ==
    /\ j \in DOMAIN jobs
    /\ jobs[j] = JobStatus(COMPLETED, 100, Some(CanonicalOrder(produced[j])), None)
    /\ inputFile[j] = "absent"
    /\ outDir[j] = [exists |-> TRUE, flat |-> produced[j], sub |-> FALSE, subFiles |-> {}]

\* the job was cancelled, or its engine invocation did not exit with code 0,
\* or there was none because the output directory could not be created
Excused(j) ==
    \/ j \in wasCancelled
    \/ engine[j] \in {"nonzero", "timeout"}
    \/ pc[j] = "escaped"

\* C7: an uploaded job whose engine invocation exits with code 0 and which is
\* never cancelled eventually is completed as CompletedProperly says, and
\* stays so.
C7_UploadCompletes ==
    \A j \in JobIds :
        /\ [](path[j] = "upload" /\ pc[j] = "scheduled"
                 => <>(Excused(j) \/ CompletedProperly(j)))
        /\ [](path[j] = "upload" /\ pc[j] = "done" /\ ~Excused(j) => CompletedProperly(j))

\* C7 happens: an uploaded job that was never cancelled is completed with
\* two stems that are not neighbours in STEMS
C7_Witness ==
    \E j \in JobIds :
        /\ path[j] = "upload" /\ pc[j] = "done" /\ j \notin wasCancelled
        /\ produced[j] = {"drums", "vocals"}
        /\ jobs[j].status = COMPLETED

\* C8: a job whose engine invocation timed out is never completed; unless it
\* was cancelled it is failed with the timeout message, and that message is
\* on no record whose engine invocation ended otherwise.
C8_TimeoutFails ==
    \A j \in JobIds :
        /\ engine[j] = "timeout" =>
              /\ jobs[j].status # COMPLETED
              /\ j \notin wasCancelled =>
                    jobs[j] = JobStatus(FAILED, 0, None, Some(TimeoutMsg))
        /\ (j \in DOMAIN jobs /\ jobs[j].error = Some(TimeoutMsg)) => engine[j] = "timeout"

\* C8 happens: a job that was never cancelled timed out
C8_Witness ==
    \E j \in JobIds :
        engine[j] = "timeout" /\ j \notin wasCancelled /\ jobs[j].status = FAILED

\* the download of a direct-URL job failed: the downloader returned False, or
\* it left no file or an empty one
DirectDownloadFailed(j) ==
    /\ path[j] = "direct"
    /\ acquisition[j] # None
    /\ \/ ~acquisition[j][1].success
       \/ acquisition[j][1].file \in {"absent", "empty"}

\* C9: a direct-URL job whose download failed is failed with the download
\* message, is never processing, has no separate() scheduled and no output
\* directory.
C9_FailedDownloadStops ==
    \A j \in JobIds :
        DirectDownloadFailed(j) =>
            /\ jobs[j] = JobStatus(FAILED, 0, None, Some(DirectDownloadMsg))
            /\ pc[j] = "refused"
            /\ j \notin returned
            /\ ~outDir[j].exists

\* C9 happens: the downloader returned True and left an empty file
C9_Witness ==
    \E j \in JobIds :
        /\ DirectDownloadFailed(j)
        /\ acquisition[j][1].success
        /\ jobs[j].status = FAILED

(***************************************************************************)
(* Properties of SoundCloudService                                         *)
(***************************************************************************)
\* the message for a resolved resource that may not be streamed
RefusalMsg(kind, access) ==
    IF kind # "track" THEN NotTrackMsg
    ELSE IF access = "blocked" THEN BlockedMsg
    ELSE IF access = "preview" THEN PreviewMsg
    ELSE NotStreamableMsg

\* C10: the streams lookup and the stream request are issued only after the
\* resolve request answered a playable track; for any other kind or access
\* the call has ended, with neither request issued, raising the message of
\* the kind if the kind is no track and else the message of the access level.
C10_OnlyPlayableTracksStream ==
    \A c \in Callers :
        /\ call[c].sent \cap {"streams", "stream"} # {} =>
              call[c].kind = "track" /\ call[c].access = "playable"
        /\ (call[c].kind # "" /\ ~(call[c].kind = "track" /\ call[c].access = "playable")) =>
              /\ call[c].pc = "done"
              /\ call[c].sent \cap {"streams", "stream"} = {}
              /\ call[c].result =
                    Some([kind |-> "error",
                          err |-> SoundCloudError(RefusalMsg(call[c].kind, call[c].access), 0),
                          file |-> "absent"])

\* C10 happens: a blocked playlist was refused as no track, with no stream
\* request issued
C10_Witness ==
    \E c \in Callers :
        /\ call[c].kind = "playlist" /\ call[c].access = "blocked"
        /\ call[c].pc = "done"
        /\ call[c].result[1].err.message = NotTrackMsg
        /\ "stream" \notin call[c].sent

\* a token is cached and the clock is more than TOKEN_REFRESH_BUFFER seconds
\* before its expiry
InWindow == access_token # None /\ now < token_expires_at - TOKEN_REFRESH_BUFFER

\* C11: a call of _get_token made while a token is cached (by a 200 answer
\* of the token endpoint, with no 401 since) and the clock is more than 300
\* seconds before the cached expiry returns the cached token and performs no
\* credential exchange; the cache is left as it is.
C11_TokenReuse ==
    [][\A c \in Callers :
          (CallStart(c) /\ InWindow) =>
              /\ call'[c].token = access_token[1]
              /\ call'[c].exchanges = 0
              /\ "token" \notin call'[c].sent
              /\ call'[c].pc = "resolve"
              /\ UNCHANGED <<access_token, token_expires_at>>]_vars

\* C11 happens: a call that began after the clock moved holds the cached
\* token without an exchange, the token having been fetched by the other
\* caller
C11_Witness ==
    \E c \in Callers :
        /\ now = TOKEN_REFRESH_BUFFER
        /\ token_expires_at = 3 * TOKEN_REFRESH_BUFFER
        /\ call[c].pc = "resolve" /\ call[c].exchanges = 0
        /\ access_token # None /\ call[c].token = access_token[1]
        /\ call[c].token # c

\* an exchange was answered 200 before, and no token is cached or the clock
\* has reached the cached expiry minus TOKEN_REFRESH_BUFFER
NeedsRefresh == token_expires_at # 0 /\ ~InWindow

\* C12: a call of _get_token made when the cached token has reached its
\* expiry minus 300 seconds, or was evicted by a 401, issues one credential
\* exchange; no call ever issues more than one; a 200 answer carrying a token
\* caches that token with the expiry now + expires_in, so that the window of
\* C11 is open again when expires_in exceeds the buffer.
C12_TokenRefresh ==
    [][\A c \in Callers :
          /\ (CallStart(c) /\ NeedsRefresh) =>
                /\ call'[c].pc = "token"
                /\ call'[c].exchanges = 1
          /\ call'[c].exchanges <= 1
          /\ \A e \in ExpiresIn :
                TokenResponse(c, 200, c, e) =>
                    /\ access_token' = Some(c)
                    /\ token_expires_at' = now + e
                    /\ call'[c].token = c
                    /\ call'[c].exchanges = 1
                    /\ e > TOKEN_REFRESH_BUFFER => InWindow']_vars

\* C12 happens: the call of one caller ended with the 401 of the resolve
\* request on a cached token, and the other caller has fetched a new token
\* with one exchange after the clock moved
C12_Witness ==
    \E c, d \in Callers :
        /\ call[c].result = Some([kind |-> "error",
                                   err |-> SoundCloudError(ResolveAuthMsg, 401),
                                   file |-> "absent"])
        /\ call[c].exchanges = 0
        /\ call[d].pc = "resolve" /\ call[d].exchanges = 1 /\ call[d].token = d
        /\ access_token = Some(d)
        /\ token_expires_at > 3 * TOKEN_REFRESH_BUFFER

(***************************************************************************)
(* Failures of the acquisition and of the processing                       *)
(***************************************************************************)
\* the intake request of URL job j has ended and scheduled no separate()
IntakeEndedUnscheduled(j) == pc[j] \in {"refused", "aborted"}

\* C13: a URL job whose intake request has ended without scheduling
\* separate() is failed with a message, whatever ended its acquisition: no
\* such job is left in downloading.
C13_AcquisitionFailureFails ==
    \A j \in DOMAIN jobs :
        IntakeEndedUnscheduled(j) =>
            /\ jobs[j].status = FAILED
            /\ jobs[j].error # None

\* the background task of job j has ended
TaskEnded(j) == pc[j] \in {"done", "escaped"}

\* C14: when the background task of a job has ended, the record of the job
\* is completed, failed or cancelled: no failure inside separate() leaves it
\* in processing.
C14_ProcessingFailureCaptured ==
    \A j \in DOMAIN jobs : TaskEnded(j) => jobs[j].status \in Terminal

(***************************************************************************)
(* Rejected requests and the shape of the records                          *)
(***************************************************************************)
\* an upload the handler must reject: neither type nor extension allowed,
\* or application/octet-stream with an extension that is not allowed
Disallowed(ct, ext) ==
    \/ ct \notin allowed_types /\ ext \notin allowed_extensions
    \/ ct = "application/octet-stream" /\ ext \notin allowed_extensions

\* nothing of the registry, the files and the pipelines changes
NoJobWork == UNCHANGED <<jobs, inputFile, outDir, pc, path, returned, acquisition>>

\* C15: a request rejected for a disallowed upload, for a URL whose scheme
\* is neither http nor https, or for a platform URL without configured
\* credentials is answered 400, 400 and 503, and leaves the registry, the
\* scratch files and the pipelines as they were.
C15_RejectedLeavesNoTrace ==
    [][/\ \A ct \in UploadTypes, ext \in UploadExts, b \in UploadBytes :
             (SeparateAudio(ct, ext, b) /\ Disallowed(ct, ext)) =>
                 resp' = Response("separate", 400) /\ NoJobWork
       /\ \A s \in UrlSchemes, soundcloud \in BOOLEAN :
             /\ (SeparateFromUrl(s, soundcloud) /\ s \notin {"http", "https"}) =>
                    resp' = Response("separate-url", 400) /\ NoJobWork
             /\ (SeparateFromUrl(s, soundcloud) /\ s \in {"http", "https"}
                     /\ soundcloud /\ ~configured) =>
                    resp' = Response("separate-url", 503) /\ NoJobWork]_vars

\* C15 happens: an upload was rejected while the registry holds a job that
\* is being processed
C15_Witness ==
    /\ resp = Response("separate", 400)
    /\ \E j \in DOMAIN jobs : jobs[j].status = PROCESSING /\ pc[j] = "engine"

\* C16: the status of every record of the registry is one of pending,
\* downloading, processing, completed, failed, cancelled.
C16_StatusIsOneOfSix ==
    \A j \in DOMAIN jobs :
        jobs[j].status \in {PENDING, DOWNLOADING, PROCESSING, COMPLETED, FAILED, CANCELLED}

\* C16 happens: a record that failed in separate() after its download
C16_Witness ==
    \E j \in DOMAIN jobs :
        path[j] = "direct" /\ pc[j] = "done" /\ jobs[j].status = FAILED

\* C17: no record has stems and error set at the same time.
C17_StemsXorError ==
    \A j \in DOMAIN jobs : ~(jobs[j].stems # None /\ jobs[j].error # None)

\* C17 happens: a job that was cancelled while separate() ran has ended
\* completed with stems, its record written after the cancel
C17_Witness ==
    \E j \in DOMAIN jobs :
        /\ j \in wasCancelled /\ pc[j] = "done"
        /\ jobs[j].status = COMPLETED
        /\ jobs[j].stems # None /\ jobs[j].stems[1] # <<>>

(***************************************************************************)
(* Properties of SoundCloudService: concurrency, errors, stream location   *)
(***************************************************************************)
\* the callers whose credential exchange is in flight
Exchanging == {c \in Callers : call[c].pc = "token"}

\* C18: at most one credential exchange is in flight at any time.
C18_SingleExchangeInFlight == Cardinality(Exchanging) <= 1

\* the step ends the wait of caller c for the answer to request rq
Answered(c, rq) == call[c].pc = rq /\ call'[c].pc # rq

\* the error a call ends with
Raised(m, code) ==
    Some([kind |-> "error", err |-> SoundCloudError(m, code), file |-> "absent"])

\* C19: a resolve request answered with another status than 200 ends the
\* call with the error of that status: 401 the authentication failure, 404
\* not found, 403 forbidden, any other the generic failure, each carrying the
\* status; the 401 clears the cached token, so that the next call exchanges
\* credentials again, and every other status leaves token and expiry alone;
\* no streams lookup and no stream request is issued.
C19_ResolveStatusMapping ==
    [][\A c \in Callers :
          Answered(c, "resolve") =>
          \A st \in ErrorStatuses : \A res \in ResourcesOf(st) :
          ResolveResponse(c, st, res) =>
              /\ call'[c].pc = "done"
              /\ call'[c].sent \cap {"streams", "stream"} = {}
              /\ call'[c].result =
                    CASE st = 401 -> Raised(ResolveAuthMsg, 401)
                      [] st = 404 -> Raised(ResolveNotFoundMsg, 404)
                      [] st = 403 -> Raised(ResolveForbiddenMsg, 403)
                      [] OTHER -> Raised(ResolveFailedMsg, st)
              /\ st = 401 => access_token' = None /\ ~TokenValid'
              /\ st # 401 => UNCHANGED <<access_token, token_expires_at>>]_vars

\* C19 happens: a resolve request on a cached token was answered 401, the
\* cache is empty, and the caller's next call is exchanging credentials
C19_Witness ==
    \E c, d \in Callers :
        /\ c # d
        /\ call[d].result = Raised(ResolveAuthMsg, 401)
        /\ call[d].exchanges = 0
        /\ access_token = None
        /\ call[c].pc = "token"

\* the variant the streams answer is taken from, by the keys it holds
FirstVariant(keys) ==
    CASE "http_mp3_128_url" \in keys -> "http_mp3_128_url"
      [] "hls_mp3_128_url" \in keys -> "hls_mp3_128_url"
      [] "preview_mp3_128_url" \in keys -> "preview_mp3_128_url"
      [] OTHER -> ""

\* C20: for a playable track, a descriptor with a stream location goes
\* straight to the stream request with no streams lookup; one without it and
\* with a track id makes the streams lookup, which takes the first present of
\* direct MP3, HLS MP3, preview MP3; without a track id, with a lookup
\* answered other than 200, or with none of the three present the call ends
\* with the no-stream-URL error and issues no stream request.
C20_StreamLocation ==
    [][\A c \in Callers :
          /\ Answered(c, "resolve") => \A res \in Resources :
                (res.kind = "track" /\ res.access = "playable"
                    /\ ResolveResponse(c, 200, res)) =>
                    CASE res.stream_url ->
                           /\ call'[c].pc = "stream"
                           /\ call'[c].location = "stream_url"
                           /\ "streams" \notin call'[c].sent
                      [] ~res.stream_url /\ res.id ->
                           /\ call'[c].pc = "streams"
                           /\ "stream" \notin call'[c].sent
                      [] OTHER ->
                           /\ call'[c].result = Raised(NoStreamUrlMsg, 0)
                           /\ call'[c].sent \cap {"streams", "stream"} = {}
          /\ Answered(c, "streams") =>
             \A st \in Statuses : \A b \in StreamsBodies(st) :
                StreamsResponse(c, st, b[1], b[2]) =>
                    IF st = 200 /\ b[1] /\ b[2] # {}
                    THEN /\ call'[c].pc = "stream"
                         /\ call'[c].location = FirstVariant(b[2])
                    ELSE /\ call'[c].result = Raised(NoStreamUrlMsg, 0)
                         /\ "stream" \notin call'[c].sent]_vars

\* C20 happens: the streams lookup held the HLS and the preview variant and
\* the stream request goes to the HLS one
C20_Witness ==
    \E c \in Callers :
        /\ call[c].pc = "stream"
        /\ call[c].location = "hls_mp3_128_url"
        /\ call[c].sent = {"token", "resolve", "streams", "stream"}

(***************************************************************************)
(* Progress, and the output directory under cancellation                   *)
(***************************************************************************)
\* the progress values a client reads of a job that runs to completed:
\* 0.05, 0.1, 0.2, 0.9, 1.0, in hundredths
ProgressSteps == {5, 10, 20, 90, 100}

\* C21: the progress of every record lies in [0.0, 1.0]; on a record that
\* was never cancelled it is 1.0 exactly when the status is completed; and
\* a step that leaves a job neither failed nor cancelled does not lower its
\* progress, which takes the values of ProgressSteps only.
C21_ProgressMovesForward ==
    [][\A j \in DOMAIN jobs' :
          /\ jobs'[j].progress >= 0 /\ jobs'[j].progress <= 100
          /\ j \notin wasCancelled' =>
                (jobs'[j].progress = 100 <=> jobs'[j].status = COMPLETED)
          /\ (j \notin wasCancelled' /\ jobs'[j].status # FAILED) =>
                /\ jobs'[j].progress \in ProgressSteps
                /\ j \in DOMAIN jobs => jobs'[j].progress >= jobs[j].progress]_vars

\* C21 happens: a direct-URL job that was never cancelled is completed with
\* progress 1.0
C21_Witness ==
    \E j \in DOMAIN jobs :
        /\ path[j] = "direct" /\ j \notin wasCancelled
        /\ jobs[j].status = COMPLETED /\ jobs[j].progress = 100

\* C22: the file of every stem listed on a completed record is in the
\* output directory of the job.
C22_CompletedStemsPresent ==
    \A j \in DOMAIN jobs :
        (jobs[j].status = COMPLETED /\ jobs[j].stems # None) =>
            \A i \in 1..Len(jobs[j].stems[1]) :
                outDir[j].exists /\ jobs[j].stems[1][i] \in outDir[j].flat

\* C23: while no cancel_job is at work on a job and the job's status is
\* cancelled, which is from the return of cancel_job on for as long as the
\* status stays cancelled, the job's output directory does not exist.
C23_CancelledDirStaysAbsent ==
    \A j \in DOMAIN jobs :
        (j \in wasCancelled /\ cancelling # j /\ jobs[j].status = CANCELLED) =>
            ~outDir[j].exists

====
